---------------------------- MODULE Spec2Model ----------------------------
(***************************************************************************)
(* A model of hifi3dface/third_party/ply.py: the PLY reader and writer and *)
(* the OBJ writer.  A file is a sequence of text lines (each a sequence of *)
(* tokens) followed by a sequence of payload bytes; numbers are encoded to *)
(* bytes and to decimal text the way numpy and pandas do it.               *)
(***************************************************************************)
EXTENDS Integers, Sequences, FiniteSets, TLC

VARIABLES
    sys_byteorder,  \* "<" or ">": the byte order of the running platform
    fs,             \* the file system: a function from the paths that exist to files
    w,              \* the position and locals of the write_ply call
    r,              \* the position and locals of the read_ply call
    o,              \* the position, arguments and locals of the write_obj call
    given           \* what the file a read-only run starts with was made of

vars == <<sys_byteorder, fs, w, r, o, given>>

----------------------------------------------------------------------------
(* Bounds of the model.                                                    *)

\* the most rows of a points array
MaxN == 1
\* the most rows of a mesh array
MaxM == 1
\* the longest file name given to write_ply in the path specification
MaxNameLen == 3
\* the most faces given to write_obj
MaxFaces == 1

----------------------------------------------------------------------------
(* Sequences.                                                              *)

Range(s) == {s[i] : i \in DOMAIN s}

RECURSIVE Flatten(_)
Flatten(ss) == IF ss = <<>> THEN <<>> ELSE Head(ss) \o Flatten(Tail(ss))

Reverse(s) == [i \in 1..Len(s) |-> s[Len(s) + 1 - i]]

\* s[from..to] clipped to the sequence, the way a Python slice is
Slice(s, from, to) ==
    LET lo == IF from < 1 THEN 1 ELSE from
        hi == IF to > Len(s) THEN Len(s) ELSE to
    IN  IF lo > hi THEN <<>> ELSE SubSeq(s, lo, hi)

SeqsUpTo(S, n) == UNION {[1..k -> S] : k \in 0..n}

----------------------------------------------------------------------------
(* Numbers.  A float is the dyadic rational m * 2^x with m odd (or 0), so  *)
(* that two floats are the same number exactly when the records are equal; *)
(* raw holds the bytes of a pattern that is no finite number of the        *)
(* model's range (an infinity, a NaN, a mantissa too long).                *)

Pow2(n) == 2 ^ n

RECURSIVE Log2(_)
Log2(a) == IF a < 2 THEN 0 ELSE 1 + Log2(a \div 2)

Abs(a) == IF a < 0 THEN -a ELSE a

RECURSIVE Normal(_, _)
Normal(m, x) ==
    IF m = 0 THEN [m |-> 0, x |-> 0, raw |-> <<>>]
    ELSE IF m % 2 = 0 THEN Normal(m \div 2, x + 1)
    ELSE [m |-> m, x |-> x, raw |-> <<>>]

Float(v) == Normal(v, 0)

RawFloat(bytes) == [m |-> 0, x |-> 0, raw |-> bytes]

\* the IEEE-754 single of v, least significant byte first: the mantissa is
\* rounded to 24 bits, ties to even
EncodeF4(v) ==
    LET sign == IF v.m < 0 THEN 128 ELSE 0
        a == Abs(v.m)
        k == Log2(a)
        sh == k - 23
        q0 == IF sh > 0 THEN a \div Pow2(sh) ELSE a * Pow2(-sh)
        rem == IF sh > 0 THEN a % Pow2(sh) ELSE 0
        half == IF sh > 0 THEN Pow2(sh - 1) ELSE 1
        up == sh > 0 /\ (rem > half \/ (rem = half /\ q0 % 2 = 1))
        q1 == IF up THEN q0 + 1 ELSE q0
        carry == q1 = Pow2(24)
        q == IF carry THEN Pow2(23) ELSE q1
        biased == v.x + k + 127 + (IF carry THEN 1 ELSE 0)
        frac == q - Pow2(23)
    IN  IF a = 0 \/ biased < 1 THEN <<0, 0, 0, sign>>
        ELSE IF biased > 254 THEN <<0, 0, 128, sign + 127>>
        ELSE << frac % 256,
                (frac \div 256) % 256,
                ((biased % 2) * 128) + (frac \div 65536),
                sign + (biased \div 2) >>

DecodeF4(b) ==
    LET neg == b[4] >= 128
        biased == ((b[4] % 128) * 2) + (b[3] \div 128)
        frac == ((b[3] % 128) * 65536) + (b[2] * 256) + b[1]
        mag == IF biased = 0 THEN frac ELSE Pow2(23) + frac
        x == IF biased = 0 THEN -149 ELSE biased - 150
    IN  IF biased = 255 THEN RawFloat(b)
        ELSE Normal(IF neg THEN -mag ELSE mag, x)

\* the byte at bit offset j of the 52-bit fraction rem * 2^s
FracByte(rem, s, j) ==
    IF s - j >= 8 THEN 0
    ELSE IF s >= j THEN (rem % Pow2(8 - (s - j))) * Pow2(s - j)
    ELSE (rem \div Pow2(j - s)) % 256

\* the IEEE-754 double of v, least significant byte first (exact: a
\* mantissa of the model has at most 31 bits)
EncodeF8(v) ==
    LET sign == IF v.m < 0 THEN 128 ELSE 0
        a == Abs(v.m)
        k == Log2(a)
        biased == v.x + k + 1023
        rem == a - Pow2(k)
        s == 52 - k
    IN  IF a = 0 \/ biased < 1 THEN <<0, 0, 0, 0, 0, 0, 0, sign>>
        ELSE IF biased > 2046 THEN <<0, 0, 0, 0, 0, 0, 240, sign + 127>>
        ELSE << FracByte(rem, s, 0), FracByte(rem, s, 8), FracByte(rem, s, 16),
                FracByte(rem, s, 24), FracByte(rem, s, 32), FracByte(rem, s, 40),
                ((biased % 16) * 16) + (FracByte(rem, s, 48) % 16),
                sign + (biased \div 16) >>

DecodeF8(b) ==
    LET neg == b[8] >= 128
        biased == ((b[8] % 128) * 16) + (b[7] \div 16)
        top == 16 + (b[7] % 16)
        \* the lowest fraction byte that is not zero (7: none)
        low == IF \E i \in 1..6 : b[i] # 0
               THEN CHOOSE i \in 1..6 : b[i] # 0 /\ \A j \in 1..(i - 1) : b[j] = 0
               ELSE 7
        mag == IF low = 7 THEN top
               ELSE IF low = 6 THEN (top * 256) + b[6]
               ELSE IF low = 5 THEN (((top * 256) + b[6]) * 256) + b[5]
               ELSE (((((top * 256) + b[6]) * 256) + b[5]) * 256) + b[4]
        used == 4 + (8 * (7 - low))
    IN  IF biased = 0 /\ \A i \in 1..7 : b[i] = 0 THEN Float(0)
        ELSE IF biased = 0 \/ biased = 2047 \/ low < 4 THEN RawFloat(b)
        ELSE Normal(IF neg THEN -mag ELSE mag, biased - 1023 - used)

\* the two's complement of the integer v in size bytes, least significant first
EncodeInt(v, size) ==
    [i \in 1..size |->
        IF i <= 4 THEN (v \div Pow2(8 * (i - 1))) % 256
        ELSE IF v < 0 THEN 255 ELSE 0]

DecodeInt(b, signed) ==
    LET n == Len(b)
        top == IF signed /\ b[n] >= 128 THEN b[n] - 256 ELSE b[n]
        RECURSIVE Sum(_)
        Sum(i) == IF i = n THEN top ELSE b[i] + (256 * Sum(i + 1))
    IN  Sum(1)

----------------------------------------------------------------------------
(* Text.  A string of the program is the sequence of its characters, so    *)
(* that `in`, split(), endswith(), str() and int() are computed, not       *)
(* assumed.  S holds the words the program writes and looks for, the type  *)
(* names of the PLY format and the dtype names of pandas.                  *)

S ==
    [ ply |-> <<"p", "l", "y">>,
      format |-> <<"f", "o", "r", "m", "a", "t">>,
      ascii |-> <<"a", "s", "c", "i", "i">>,
      binary_little_endian |-> <<"b", "i", "n", "a", "r", "y", "_", "l", "i", "t", "t", "l", "e", "_", "e", "n", "d", "i", "a", "n">>,
      binary_big_endian |-> <<"b", "i", "n", "a", "r", "y", "_", "b", "i", "g", "_", "e", "n", "d", "i", "a", "n">>,
      element |-> <<"e", "l", "e", "m", "e", "n", "t">>,
      vertex |-> <<"v", "e", "r", "t", "e", "x">>,
      face |-> <<"f", "a", "c", "e">>,
      property |-> <<"p", "r", "o", "p", "e", "r", "t", "y">>,
      list |-> <<"l", "i", "s", "t">>,
      end_header |-> <<"e", "n", "d", "_", "h", "e", "a", "d", "e", "r">>,
      vertex_indices |-> <<"v", "e", "r", "t", "e", "x", "_", "i", "n", "d", "i", "c", "e", "s">>,
      n_points |-> <<"n", "_", "p", "o", "i", "n", "t", "s">>,
      float |-> <<"f", "l", "o", "a", "t">>,
      double |-> <<"d", "o", "u", "b", "l", "e">>,
      int |-> <<"i", "n", "t">>,
      uchar |-> <<"u", "c", "h", "a", "r">>,
      bogus |-> <<"b", "o", "g", "u", "s">>,
      red |-> <<"r", "e", "d">>,
      green |-> <<"g", "r", "e", "e", "n">>,
      blue |-> <<"b", "l", "u", "e">>,
      v1 |-> <<"v", "1">>,
      v2 |-> <<"v", "2">>,
      v3 |-> <<"v", "3">>,
      x |-> <<"x">>,
      y |-> <<"y">>,
      z |-> <<"z">>,
      version |-> <<"1", ".", "0">>,
      dot_ply |-> <<".", "p", "l", "y">>,
      int8 |-> <<"i", "n", "t", "8">>,
      char |-> <<"c", "h", "a", "r">>,
      uint8 |-> <<"u", "i", "n", "t", "8">>,
      int16 |-> <<"i", "n", "t", "1", "6">>,
      short |-> <<"s", "h", "o", "r", "t">>,
      uint16 |-> <<"u", "i", "n", "t", "1", "6">>,
      ushort |-> <<"u", "s", "h", "o", "r", "t">>,
      int32 |-> <<"i", "n", "t", "3", "2">>,
      uint32 |-> <<"u", "i", "n", "t", "3", "2">>,
      uint |-> <<"u", "i", "n", "t">>,
      float32 |-> <<"f", "l", "o", "a", "t", "3", "2">>,
      float64 |-> <<"f", "l", "o", "a", "t", "6", "4">>,
      int64 |-> <<"i", "n", "t", "6", "4">>,
      object |-> <<"o", "b", "j", "e", "c", "t">>,
      little |-> <<"l", "i", "t", "t", "l", "e">>,
      big |-> <<"b", "i", "g">>,
      binary |-> <<"b", "i", "n", "a", "r", "y", "_">>,
      endian |-> <<"_", "e", "n", "d", "i", "a", "n">>,
      mtllib |-> <<"m", "t", "l", "l", "i", "b", " ", "t", "e", "s", "t", ".", "m", "t", "l">>,
      reply |-> <<"r", "e", "p", "l", "y">>,
      mesh_ply |-> <<"m", "e", "s", "h", "_", "p", "l", "y">> ]

Digits == <<"0", "1", "2", "3", "4", "5", "6", "7", "8", "9">>

IsDigit(c) == \E d \in 1..10 : Digits[d] = c

DigitValue(c) == (CHOOSE d \in 1..10 : Digits[d] = c) - 1

\* str(n) and "%d" % n
RECURSIVE Str(_)
Str(n) ==
    IF n < 0 THEN <<"-">> \o Str(-n)
    ELSE IF n < 10 THEN <<Digits[n + 1]>>
    ELSE Str(n \div 10) \o <<Digits[(n % 10) + 1]>>

\* bytes/str `in`: t occurs in s as a substring
Contains(s, t) ==
    \E i \in 0..(Len(s) - Len(t)) : SubSeq(s, i + 1, i + Len(t)) = t

\* str.endswith
EndsWith(s, t) ==
    Len(s) >= Len(t) /\ SubSeq(s, Len(s) - Len(t) + 1, Len(s)) = t

\* sep.join(tokens)
RECURSIVE Join(_, _)
Join(tokens, sep) ==
    IF tokens = <<>> THEN <<>>
    ELSE IF Len(tokens) = 1 THEN tokens[1]
    ELSE tokens[1] \o sep \o Join(Tail(tokens), sep)

\* bytes.split(): the maximal runs of characters that are not blank
RECURSIVE SplitFrom(_, _, _)
SplitFrom(s, i, cur) ==
    IF i > Len(s) THEN (IF cur = <<>> THEN <<>> ELSE <<cur>>)
    ELSE IF s[i] = " "
         THEN (IF cur = <<>> THEN <<>> ELSE <<cur>>) \o SplitFrom(s, i + 1, <<>>)
         ELSE SplitFrom(s, i + 1, Append(cur, s[i]))

Split(s) == SplitFrom(s, 1, <<>>)

\* the fields of a csv line with sep=" ": every blank separates
RECURSIVE FieldsFrom(_, _, _)
FieldsFrom(s, i, cur) ==
    IF i > Len(s) THEN <<cur>>
    ELSE IF s[i] = " " THEN <<cur>> \o FieldsFrom(s, i + 1, <<>>)
    ELSE FieldsFrom(s, i + 1, Append(cur, s[i]))

Fields(s) == FieldsFrom(s, 1, <<>>)

IsIntText(t) ==
    LET body == IF t # <<>> /\ t[1] = "-" THEN Tail(t) ELSE t
    IN  body # <<>> /\ \A i \in DOMAIN body : IsDigit(body[i])

RECURSIVE DigitsValue(_)
DigitsValue(t) ==
    IF t = <<>> THEN 0
    ELSE (10 * DigitsValue(SubSeq(t, 1, Len(t) - 1))) + DigitValue(t[Len(t)])

\* int(t), for a t that IsIntText
IntOfText(t) ==
    IF t[1] = "-" THEN -DigitsValue(Tail(t)) ELSE DigitsValue(t)

\* the text pandas writes for a float: the shortest decimal that reads back
\* as the same float; for the whole numbers of the model, "<n>.0"
FloatText(v) ==
    IF v.raw = <<>> /\ v.x >= 0 THEN Str(v.m * Pow2(v.x)) \o <<".", "0">>
    ELSE <<"n", "a", "n">>

\* the float a decimal text reads as: exact for <whole>.<zeros>, and a
\* number outside the model (raw: its text) otherwise
FloatOfText(t) ==
    LET dot == IF \E i \in DOMAIN t : t[i] = "."
               THEN CHOOSE i \in DOMAIN t : t[i] = "." ELSE 0
        whole == SubSeq(t, 1, dot - 1)
        frac == SubSeq(t, dot + 1, Len(t))
    IN  IF IsIntText(t) THEN Float(IntOfText(t))
        ELSE IF dot > 1 /\ IsIntText(whole) /\ \A i \in DOMAIN frac : frac[i] = "0"
        THEN Float(IntOfText(whole))
        ELSE RawFloat(t)

----------------------------------------------------------------------------
(* The module's tables.                                                    *)

\* the pairs dict() is given, in order
ply_dtypes_items ==
    << <<S.int8, <<"i", "1">>>>,
       <<S.char, <<"i", "1">>>>,
       <<S.uint8, <<"u", "1">>>>,
       <<S.uchar, <<"b", "1">>>>,
       <<S.uchar, <<"u", "1">>>>,
       <<S.int16, <<"i", "2">>>>,
       <<S.short, <<"i", "2">>>>,
       <<S.uint16, <<"u", "2">>>>,
       <<S.ushort, <<"u", "2">>>>,
       <<S.int32, <<"i", "4">>>>,
       <<S.int, <<"i", "4">>>>,
       <<S.uint32, <<"u", "4">>>>,
       <<S.uint, <<"u", "4">>>>,
       <<S.float32, <<"f", "4">>>>,
       <<S.float, <<"f", "4">>>>,
       <<S.float64, <<"f", "8">>>>,
       <<S.double, <<"f", "8">>>> >>

\* dict(items): a key that comes twice keeps its last value
DictKeys(items) == {items[i][1] : i \in DOMAIN items}

DictGet(items, key) ==
    LET last == CHOOSE i \in DOMAIN items :
                    /\ items[i][1] = key
                    /\ \A j \in DOMAIN items : items[j][1] = key => j <= i
    IN  items[last][2]

ply_dtypes == [key \in DictKeys(ply_dtypes_items) |-> DictGet(ply_dtypes_items, key)]

valid_formats ==
    [key \in {S.ascii, S.binary_big_endian, S.binary_little_endian} |->
        IF key = S.ascii THEN <<>>
        ELSE IF key = S.binary_big_endian THEN <<">">>
        ELSE <<"<">>]

\* sys.byteorder, from which sys_byteorder is computed
SysByteorderName == IF sys_byteorder = "<" THEN S.little ELSE S.big

\* describe_element's table
property_formats ==
    [key \in {"f", "u", "i"} |->
        IF key = "f" THEN S.float ELSE IF key = "u" THEN S.uchar ELSE S.int]

----------------------------------------------------------------------------
(* Arrays and tables.  An array argument is None or [dtype, rows]; a       *)
(* DataFrame is [columns, dtypes, rows].  A dtype of the caller's data is  *)
(* its pandas name (float64), a dtype built by read_ply is numpy's code    *)
(* with its byte order (<f4).                                              *)

None == [dtype |-> <<>>, rows |-> <<>>]

Array(dtype, rows) == [dtype |-> dtype, rows |-> rows]

\* pd.DataFrame(data, columns=columns): no data gives object columns
DataFrame(data, columns) ==
    [columns |-> columns,
     dtypes |-> [i \in DOMAIN columns |-> IF data = None THEN S.object ELSE data.dtype],
     rows |-> data.rows]

\* pd.concat([a, b], axis=1), for tables of as many rows
ConcatColumns(a, b) ==
    [columns |-> a.columns \o b.columns,
     dtypes |-> a.dtypes \o b.dtypes,
     rows |-> [i \in DOMAIN a.rows |-> a.rows[i] \o b.rows[i]]]

\* df.insert(loc=0, column=name, value=v) and the astype of that column
InsertFirst(df, name, dtype, v) ==
    [columns |-> <<name>> \o df.columns,
     dtypes |-> <<dtype>> \o df.dtypes,
     rows |-> [i \in DOMAIN df.rows |-> <<v>> \o df.rows[i]]]

\* the bytes of an item of a pandas dtype: the digits its name ends in, over 8
RECURSIVE TrailingDigits(_)
TrailingDigits(t) ==
    IF t = <<>> \/ ~IsDigit(t[Len(t)]) THEN <<>>
    ELSE TrailingDigits(SubSeq(t, 1, Len(t) - 1)) \o <<t[Len(t)]>>

ItemSize(dtype) == DigitsValue(TrailingDigits(dtype)) \div 8

\* the record bytes numpy writes for one value, in byte order `order`
EncodeValue(v, dtype, order) ==
    LET size == ItemSize(dtype)
        le == IF dtype[1] = "f"
              THEN (IF size = 4 THEN EncodeF4(v) ELSE EncodeF8(v))
              ELSE EncodeInt(v, size)
    IN  IF order = ">" THEN Reverse(le) ELSE le

\* np.asarray(values, dtype): a float32 array holds the nearest singles
CastValue(v, dtype) ==
    IF dtype = S.float32 THEN DecodeF4(EncodeF4(v)) ELSE v

\* the text to_csv writes for one value
ValueText(v, dtype) == IF dtype[1] = "f" THEN FloatText(v) ELSE Str(v)

----------------------------------------------------------------------------
(* Files.  A file is its text lines (without the line ends) followed by    *)
(* its payload bytes; fs maps the paths that exist to their files.         *)

File(lines, data) == [exists |-> TRUE, lines |-> lines, data |-> data]

NoFile == [exists |-> FALSE, lines |-> <<>>, data |-> <<>>]

EmptyFile == File(<<>>, <<>>)

FileAt(path) == IF path \in DOMAIN fs THEN fs[path] ELSE NoFile

\* the file system with file at path
FsWith(path, file) ==
    [q \in (DOMAIN fs) \cup {path} |-> IF q = path THEN file ELSE fs[q]]

\* the bytes of the first n lines, each with its line end
RECURSIVE TextBytes(_, _)
TextBytes(lines, n) ==
    IF n = 0 \/ lines = <<>> THEN 0
    ELSE Len(lines[1]) + 1 + TextBytes(Tail(lines), n - 1)

----------------------------------------------------------------------------
(* write_ply.                                                              *)

\* describe_element(name, df): the header lines of one element, or the
\* KeyError of a column whose dtype starts with no letter of the table
describe_element(name, df) ==
    LET cols == DOMAIN df.columns
        known(i) == df.dtypes[i][1] \in DOMAIN property_formats
        first == <<S.element \o <<" ">> \o name \o <<" ">> \o Str(Len(df.rows))>>
    IN  IF name = S.face
        THEN [raised |-> "",
              element |-> first \o
                  <<Join(<<S.property, S.list, S.uchar, S.int, S.vertex_indices>>, <<" ">>)>>]
        ELSE IF \E i \in cols : ~known(i)
        THEN [raised |-> "KeyError", element |-> <<>>]
        ELSE [raised |-> "",
              element |-> first \o
                  [i \in cols |->
                      S.property \o <<" ">> \o property_formats[df.dtypes[i][1]]
                          \o <<" ">> \o df.columns[i]]]

\* lines 164-168: the tables write_ply makes of its arguments
PointsTable(points, colors) ==
    LET xyz == DataFrame(points, <<S.x, S.y, S.z>>)
    IN  IF colors # None
        THEN ConcatColumns(xyz, DataFrame(colors, <<S.red, S.green, S.blue>>))
        ELSE xyz

MeshTable(mesh) == DataFrame(mesh, <<S.v1, S.v2, S.v3>>)

\* lines 201-203: the copy with the n_points column
MeshWithCount(mesh) == InsertFirst(mesh, S.n_points, S.uint8, 3)

\* what filename must end with to be left as it is (line 186)
PlySuffix == S.ply

\* lines 186-187
OutputName(filename) ==
    IF ~EndsWith(filename, PlySuffix) THEN filename \o S.dot_ply ELSE filename

\* line 200: the test that guards the face element
HasMesh(mesh) == mesh # None

\* lines 191-206: the header, or the error describe_element raised
Header(points, mesh, as_text) ==
    LET fmt == IF as_text THEN Join(<<S.format, S.ascii, S.version>>, <<" ">>)
               ELSE S.format \o <<" ">> \o S.binary \o SysByteorderName
                        \o S.endian \o <<" ">> \o S.version
        pe == IF points # None THEN describe_element(S.vertex, points)
              ELSE [raised |-> "", element |-> <<>>]
        me == IF HasMesh(mesh) THEN describe_element(S.face, MeshWithCount(mesh))
              ELSE [raised |-> "", element |-> <<>>]
    IN  IF pe.raised # "" THEN [raised |-> pe.raised, lines |-> <<>>]
        ELSE IF me.raised # "" THEN [raised |-> me.raised, lines |-> <<>>]
        ELSE [raised |-> "",
              lines |-> <<S.ply, fmt>> \o pe.element \o me.element \o <<S.end_header>>]

\* df.to_csv(sep=" ", index=False, header=False): one line a row
to_csv(df) ==
    [i \in DOMAIN df.rows |->
        Join([j \in DOMAIN df.columns |-> ValueText(df.rows[i][j], df.dtypes[j])], <<" ">>)]

\* df.to_records(index=False).tofile(f): the packed records in the
\* platform's byte order; numpy refuses a record with an object field
tofile(df) ==
    IF \E j \in DOMAIN df.dtypes : df.dtypes[j] = S.object
    THEN [raised |-> "OSError", bytes |-> <<>>]
    ELSE [raised |-> "",
          bytes |-> Flatten([i \in DOMAIN df.rows |->
                       Flatten([j \in DOMAIN df.columns |->
                           EncodeValue(df.rows[i][j], df.dtypes[j], sys_byteorder)])])]

\* write_ply with one open: the header and the vertex payload written before
\* the file is closed
write_ply_one_open(filename, points, mesh, colors, as_text) ==
    LET name == OutputName(filename)
        pts == PointsTable(points, colors)
        msh == MeshTable(mesh)
        hdr == Header(pts, msh, as_text)
    IN  /\ w.pc = "idle"
        /\ hdr.raised = ""
        /\ fs' = FsWith(name, IF as_text THEN File(hdr.lines \o to_csv(pts), <<>>)
                              ELSE File(hdr.lines, tofile(pts).bytes))
        /\ w' = [pc |-> IF as_text THEN "points_text" ELSE "binary",
                 filename |-> name,
                 args |-> [filename |-> filename, points |-> points, mesh |-> mesh,
                           colors |-> colors],
                 points |-> pts,
                 mesh |-> IF msh # None THEN MeshWithCount(msh) ELSE msh,
                 as_text |-> as_text,
                 before |-> IF name \in DOMAIN fs THEN fs[name] ELSE NoFile, ret |-> ""]
        /\ UNCHANGED <<sys_byteorder, r, o, given>>

WIdle == [pc |-> "idle", filename |-> <<>>, args |-> <<>>, points |-> None,
          mesh |-> None, as_text |-> FALSE, before |-> NoFile, ret |-> ""]

\* lines 163-209: the tables, the name, and the first open: the file is
\* truncated, and the header written unless building it raised
write_ply_header(filename, points, mesh, colors, as_text) ==
    LET name == OutputName(filename)
        pts == PointsTable(points, colors)
        msh == MeshTable(mesh)
        hdr == Header(pts, msh, as_text)
    IN  /\ w.pc = "idle"
        /\ fs' = FsWith(name, IF hdr.raised # "" THEN EmptyFile ELSE File(hdr.lines, <<>>))
        /\ w' = [pc |-> IF hdr.raised # "" THEN "done"
                        ELSE IF as_text THEN "points_text" ELSE "binary",
                 filename |-> name,
                 args |-> [filename |-> filename, points |-> points, mesh |-> mesh,
                           colors |-> colors],
                 points |-> pts,
                 mesh |-> IF HasMesh(msh) THEN MeshWithCount(msh) ELSE msh,
                 as_text |-> as_text,
                 before |-> FileAt(name), ret |-> hdr.raised]
        /\ UNCHANGED <<sys_byteorder, r, o, given>>

\* the file system with lines and bytes appended to the file of the call
Appended(lines, bytes) ==
    LET f == FileAt(w.filename)
    IN  FsWith(w.filename, File(f.lines \o lines, f.data \o bytes))

\* lines 212-215: points.to_csv(filename, mode="a"), or the I/O error of it
write_ply_points_text(fault) ==
    /\ w.pc = "points_text"
    /\ IF fault
       THEN /\ w' = [w EXCEPT !.pc = "done", !.ret = "OSError"]
            /\ fs' = fs
       ELSE /\ w' = [w EXCEPT !.pc = "mesh_text"]
            /\ fs' = Appended(IF w.points # None THEN to_csv(w.points) ELSE <<>>, <<>>)
    /\ UNCHANGED <<sys_byteorder, r, o, given>>

\* lines 216-219 and 229: mesh.to_csv(filename, mode="a"), or the I/O error
write_ply_mesh_text(fault) ==
    /\ w.pc = "mesh_text"
    /\ IF fault
       THEN /\ w' = [w EXCEPT !.pc = "done", !.ret = "OSError"]
            /\ fs' = fs
       ELSE /\ w' = [w EXCEPT !.pc = "done", !.ret = "True"]
            /\ fs' = Appended(IF HasMesh(w.mesh) THEN to_csv(w.mesh) ELSE <<>>, <<>>)
    /\ UNCHANGED <<sys_byteorder, r, o, given>>

\* lines 221-229: the second open, in binary append mode, and the records
\* of the points and then of the mesh; an error leaves what was written
write_ply_binary(fault) ==
    LET pb == IF w.points # None THEN tofile(w.points) ELSE [raised |-> "", bytes |-> <<>>]
        mb == IF HasMesh(w.mesh) THEN tofile(w.mesh) ELSE [raised |-> "", bytes |-> <<>>]
    IN  /\ w.pc = "binary"
        /\ IF fault \/ pb.raised # ""
           THEN /\ w' = [w EXCEPT !.pc = "done", !.ret = "OSError"]
                /\ fs' = fs
           ELSE IF mb.raised # ""
           THEN /\ w' = [w EXCEPT !.pc = "done", !.ret = mb.raised]
                /\ fs' = Appended(<<>>, pb.bytes)
           ELSE /\ w' = [w EXCEPT !.pc = "done", !.ret = "True"]
                /\ fs' = Appended(<<>>, pb.bytes \o mb.bytes)
        /\ UNCHANGED <<sys_byteorder, r, o, given>>

----------------------------------------------------------------------------
(* read_ply: the header.                                                   *)

\* ply.readline() at line i of the file: the line, or b"" at the end
ReadLine(file, i) ==
    IF i <= Len(file.lines) THEN [kind |-> "bytes", val |-> file.lines[i]]
    ELSE [kind |-> "eof", val |-> <<>>]

\* line 62: the loop goes on while `line` (the bytes read, or the list
\* line.split() left in it) holds no end_header and is not b""
LoopContinues(line) ==
    /\ IF line.kind = "list" THEN S.end_header \notin Range(line.val)
       ELSE ~Contains(line.val, S.end_header)
    /\ line.kind # "eof"

\* dtypes[name].append(field): dtypes is a defaultdict(list)
DictAppend(d, key, fields) ==
    [k \in (DOMAIN d) \cup {key} |->
        IF k = key THEN (IF key \in DOMAIN d THEN d[key] ELSE <<>>) \o fields
        ELSE d[k]]

\* dtypes[name], which is [] for a name never appended to
DictList(d, key) == IF key \in DOMAIN d THEN d[key] ELSE <<>>

Raise(st, what) == [st EXCEPT !.raised = what]

\* lines 65-72: an element line
ElementLine(st, text) ==
    LET toks == Split(text)
    IN  IF Len(toks) < 3 THEN Raise(st, "IndexError")
        ELSE IF ~IsIntText(toks[3]) THEN Raise(st, "ValueError")
        ELSE [st EXCEPT !.line = [kind |-> "list", val |-> toks],
                        !.name = <<toks[2]>>,
                        !.points_size = IF toks[2] = S.vertex
                                        THEN <<IntOfText(toks[3])>> ELSE @,
                        !.mesh_size = IF toks[2] # S.vertex /\ toks[2] = S.face
                                      THEN <<IntOfText(toks[3])>> ELSE @]

\* lines 74-99: a property line; name is the last element line's name
PropertyLine(st, text, ext) ==
    LET toks == Split(text)
        type(i) == ext \o ply_dtypes[toks[i]]
    IN  IF st.name = <<>> THEN Raise(st, "UnboundLocalError")
        ELSE IF S.list \in Range(toks)
        THEN IF Len(toks) < 3 THEN Raise(st, "IndexError")
             ELSE IF toks[3] \notin DOMAIN ply_dtypes THEN Raise(st, "KeyError")
             ELSE IF Len(toks) < 4 THEN Raise(st, "IndexError")
             ELSE IF toks[4] \notin DOMAIN ply_dtypes THEN Raise(st, "KeyError")
             ELSE [st EXCEPT !.line = [kind |-> "list", val |-> toks],
                             !.dtypes = DictAppend(@, st.name[1],
                                 << <<S.n_points, type(3)>>, <<S.v1, type(4)>>,
                                    <<S.v2, type(4)>>, <<S.v3, type(4)>> >>)]
        ELSE IF Len(toks) < 3 THEN Raise(st, "IndexError")
             ELSE IF toks[2] \notin DOMAIN ply_dtypes THEN Raise(st, "KeyError")
             ELSE [st EXCEPT !.line = [kind |-> "list", val |-> toks],
                             !.dtypes = DictAppend(@, st.name[1],
                                 << <<toks[3], type(2)>> >>)]

\* lines 62-100: the loop over the header lines, from line st.i on
RECURSIVE HeaderLoop(_, _, _)
HeaderLoop(file, st, ext) ==
    IF st.raised # "" \/ ~LoopContinues(st.line) THEN st
    ELSE LET line == ReadLine(file, st.i)
             read == [st EXCEPT !.line = line, !.i = @ + 1]
             done == IF Contains(line.val, S.element) THEN ElementLine(read, line.val)
                     ELSE IF Contains(line.val, S.property)
                     THEN PropertyLine(read, line.val, ext)
                     ELSE read
         IN  HeaderLoop(file, IF done.raised # "" THEN done
                              ELSE [done EXCEPT !.count = @ + 1], ext)

\* the number the header scan starts its count of lines at (line 59)
FirstCount == 2

\* lines 48-103: the first open.  A size that is None is <<>>, a size n <<n>>.
ParseHeader(file) ==
    LET first == ReadLine(file, 1)
        second == Split(ReadLine(file, 2).val)
        st0 == [raised |-> "", fmt |-> <<>>, ext |-> <<>>,
                i |-> 3, line |-> [kind |-> "list", val |-> <<>>],
                dtypes |-> <<>>, count |-> FirstCount, points_size |-> <<>>,
                mesh_size |-> <<>>, name |-> <<>>, end_header |-> 0]
    IN  IF ~file.exists THEN Raise(st0, "FileNotFoundError")
        ELSE IF ~Contains(first.val, S.ply) THEN Raise(st0, "ValueError")
        ELSE IF Len(second) < 2 THEN Raise(st0, "IndexError")
        ELSE IF second[2] \notin DOMAIN valid_formats THEN Raise(st0, "KeyError")
        ELSE LET ext == valid_formats[second[2]]
                 st == HeaderLoop(file, [st0 EXCEPT !.fmt = second[2], !.ext = ext], ext)
             IN  [st EXCEPT !.end_header = TextBytes(file.lines, st.i - 1)]

----------------------------------------------------------------------------
(* read_ply: the payload.  A dtype of the header is a byte order (<, > or  *)
(* none), a kind letter and a size digit.                                  *)

DtypeOrder(d) == IF d[1] \in {"<", ">"} THEN d[1] ELSE "="

DtypeKind(d) == d[Len(d) - 1]

DtypeSize(d) == DigitValue(d[Len(d)])

Table(columns, dtypes, rows) == [columns |-> columns, dtypes |-> dtypes, rows |-> rows]

Names(fields) == [j \in DOMAIN fields |-> fields[j][1]]

Dtypes(fields) == [j \in DOMAIN fields |-> fields[j][2]]

NaN == RawFloat(<<"n", "a", "n">>)

\* an integer of the model in a column of `size` bytes
Wrap(v, size, signed) ==
    IF size >= 4 THEN v
    ELSE IF signed THEN ((v + Pow2(8 * size - 1)) % Pow2(8 * size)) - Pow2(8 * size - 1)
    ELSE v % Pow2(8 * size)

\* the whole part of a float
Trunc(f) == IF f.x >= 0 THEN f.m * Pow2(f.x) ELSE f.m \div Pow2(-f.x)

\* column.astype(d) of a value pandas read as an int (isint) or as a float
AsType(v, isint, d) ==
    LET fv == IF isint THEN Float(v) ELSE v
    IN  IF DtypeKind(d) = "f"
        THEN (IF fv.raw # <<>> \/ DtypeSize(d) # 4 THEN fv ELSE DecodeF4(EncodeF4(fv)))
        ELSE Wrap(IF isint THEN v ELSE Trunc(fv), DtypeSize(d), DtypeKind(d) = "i")

\* astype raises for a value that is no number, cast to an integer type
AsTypeFails(v, isint, d) == DtypeKind(d) # "f" /\ ~isint /\ v.raw # <<>>

\* pd.read_csv(sep=" ", header=None, engine="python") of `lines`, keeping the
\* fields at positions `use` as the columns `fields`, each then cast by
\* astype.  width is the number of fields a line may have.
ReadCsv(lines, width, use, fields) ==
    LET cells == [i \in DOMAIN lines |-> Fields(lines[i])]
        cell(i, j) == IF use[j] <= Len(cells[i]) THEN cells[i][use[j]] ELSE <<>>
        isint(j) == \A i \in DOMAIN lines : IsIntText(cell(i, j))
        value(i, j) == IF isint(j) THEN IntOfText(cell(i, j))
                       ELSE IF cell(i, j) = <<>> THEN NaN
                       ELSE FloatOfText(cell(i, j))
        rows == [i \in DOMAIN lines |->
                    [j \in DOMAIN fields |-> AsType(value(i, j), isint(j), fields[j][2])]]
    IN  IF fields = <<>> /\ lines = <<>>
        THEN [raised |-> "EmptyDataError", table |-> Table(<<>>, <<>>, <<>>)]
        ELSE IF \E i \in DOMAIN lines : Len(cells[i]) > width
        THEN [raised |-> "ParserError", table |-> Table(<<>>, <<>>, <<>>)]
        ELSE IF \E i \in DOMAIN lines, j \in DOMAIN fields :
                    AsTypeFails(value(i, j), isint(j), fields[j][2])
        THEN [raised |-> "ValueError", table |-> Table(<<>>, <<>>, <<>>)]
        ELSE [raised |-> "", table |-> Table(Names(fields), Dtypes(fields), rows)]

\* the array np.fromfile(f, dtype=fields, count=count) reads at byte pos of
\* the payload: the whole records that are there, at most count of them
fromfile(bytes, pos, fields, count) ==
    LET size(j) == DtypeSize(fields[j][2])
        RECURSIVE Offset(_)
        Offset(j) == IF j = 1 THEN 0 ELSE Offset(j - 1) + size(j - 1)
        itemsize == IF fields = <<>> THEN 0 ELSE Offset(Len(fields)) + size(Len(fields))
        there == IF itemsize = 0 \/ pos > Len(bytes) THEN 0
                 ELSE (Len(bytes) - pos) \div itemsize
        n == IF count < there THEN count ELSE there
        field(i, j) == SubSeq(bytes, pos + ((i - 1) * itemsize) + Offset(j) + 1,
                              pos + ((i - 1) * itemsize) + Offset(j) + size(j))
    IN  [fields |-> fields,
         recs |-> [i \in 1..n |-> [j \in DOMAIN fields |-> field(i, j)]],
         next |-> pos + (n * itemsize),
         itemsize |-> itemsize]

\* arr.byteswap(): the bytes of every field in the opposite order
byteswap(arr) ==
    [arr EXCEPT !.recs = [i \in DOMAIN arr.recs |->
                             [j \in DOMAIN arr.recs[i] |-> Reverse(arr.recs[i][j])]]]

Native == <<sys_byteorder>>

\* arr.newbyteorder(): the same bytes, every field's dtype of the other order
newbyteorder(arr) ==
    LET other(d) == IF DtypeOrder(d) = "<" THEN <<">">> \o Tail(d)
                    ELSE IF DtypeOrder(d) = ">" THEN <<"<">> \o Tail(d)
                    ELSE (IF sys_byteorder = "<" THEN <<">">> ELSE <<"<">>) \o d
    IN  [arr EXCEPT !.fields = [j \in DOMAIN arr.fields |->
                                   <<arr.fields[j][1], other(arr.fields[j][2])>>]]

\* the byte swap without the change of the dtype's byte order
ToNative_NoRelabel(arr, ext) ==
    IF ext # Native THEN byteswap(arr) ELSE arr

\* lines 150-151, 155-156: the array made native when the file's order is
\* not the platform's
ToNative(arr, ext) ==
    IF ext # Native THEN newbyteorder(byteswap(arr)) ELSE arr

\* the number a field of dtype d holds in memory
FieldValue(bytes, d) ==
    LET order == IF DtypeOrder(d) = "=" THEN sys_byteorder ELSE DtypeOrder(d)
        le == IF order = ">" THEN Reverse(bytes) ELSE bytes
    IN  IF DtypeKind(d) = "f"
        THEN (IF DtypeSize(d) = 4 THEN DecodeF4(le) ELSE DecodeF8(le))
        ELSE DecodeInt(le, DtypeKind(d) = "i")

\* pd.DataFrame(arr)
FrameOfRecords(arr) ==
    Table(Names(arr.fields), Dtypes(arr.fields),
          [i \in DOMAIN arr.recs |->
              [j \in DOMAIN arr.fields |-> FieldValue(arr.recs[i][j], arr.fields[j][2])]])

\* df.drop(name, axis=1), for a name among the columns
DropColumn(df, name) ==
    LET keep == {j \in DOMAIN df.columns : df.columns[j] # name}
        RECURSIVE Pick(_, _)
        Pick(seq, j) == IF j > Len(df.columns) THEN <<>>
                        ELSE (IF j \in keep THEN <<seq[j]>> ELSE <<>>) \o Pick(seq, j + 1)
    IN  Table(Pick(df.columns, 1), Pick(df.dtypes, 1),
              [i \in DOMAIN df.rows |-> Pick(df.rows[i], 1)])

----------------------------------------------------------------------------
(* read_ply: the steps.  data is the dict the call builds; ret is "" while *)
(* the call runs, "data" when it returned data, else the exception raised. *)

RIdle == [pc |-> "idle", filename |-> <<>>, hdr |-> <<>>, data |-> <<>>, ret |-> ""]

RRaise(what) == [r EXCEPT !.pc = "done", !.ret = what, !.data = <<>>]

RReturn(data) == [r EXCEPT !.pc = "done", !.ret = "data", !.data = data]

\* lines 48-103: the first open and the header
read_ply_header(filename) ==
    LET hdr == ParseHeader(FileAt(filename))
    IN  /\ r.pc = "idle"
        /\ r' = [pc |-> IF hdr.raised # "" THEN "done"
                        ELSE IF hdr.fmt = S.ascii THEN "points_text" ELSE "binary",
                 filename |-> filename, hdr |-> hdr, data |-> <<>>, ret |-> hdr.raised]
        /\ UNCHANGED <<sys_byteorder, fs, w, o, given>>

\* lines 107-125: read_csv opens the file again for the vertex lines: those
\* after the first `count` lines, less the last mesh_size lines
read_ply_points_text ==
    LET file == FileAt(r.filename)
        h == r.hdr
        top == h.count
        bottom == IF h.mesh_size = <<>> THEN 0 ELSE h.mesh_size[1]
        fields == DictList(h.dtypes, S.vertex)
        lines == Slice(file.lines, top + 1, Len(file.lines) - bottom)
        csv == ReadCsv(lines, Len(fields), [j \in DOMAIN fields |-> j], fields)
    IN  /\ r.pc = "points_text"
        /\ r' = IF ~file.exists THEN RRaise("FileNotFoundError")
                ELSE IF csv.raised # "" THEN RRaise(csv.raised)
                ELSE IF h.mesh_size = <<>> THEN RReturn([k \in {"points"} |-> csv.table])
                ELSE [r EXCEPT !.pc = "mesh_text", !.data = [k \in {"points"} |-> csv.table]]
        /\ UNCHANGED <<sys_byteorder, fs, w, o, given>>

\* lines 127-144: read_csv opens the file a third time for the face lines:
\* those after the first count + points_size lines, of which the fields
\* 1, 2, 3 (counted from 0) are kept.  When no line is left, usecols points
\* past the columns pandas knows: a pandas that checks this raises
\* (strict), an older one returns the empty table of the columns it kept.
read_ply_mesh_text(strict) ==
    LET file == FileAt(r.filename)
        h == r.hdr
        top == h.count + h.points_size[1]
        fields == Tail(DictList(h.dtypes, S.face))
        lines == Slice(file.lines, top + 1, Len(file.lines))
        width == Len(Fields(lines[1]))
        csv == ReadCsv(lines, width, <<2, 3, 4>>, fields)
        kept == SubSeq(fields, 2, Len(fields))
        done(table) == RReturn([k \in {"points", "mesh"} |->
                                   IF k = "mesh" THEN table ELSE r.data.points])
    IN  /\ r.pc = "mesh_text"
        /\ r' = IF h.points_size = <<>> THEN RRaise("TypeError")
                ELSE IF ~file.exists THEN RRaise("FileNotFoundError")
                ELSE IF DictList(h.dtypes, S.face) = <<>> \/ fields = <<>>
                THEN RRaise("EmptyDataError")
                ELSE IF lines = <<>>
                THEN (IF strict THEN RRaise("ParserError")
                      ELSE done(Table(Names(kept), Dtypes(kept), <<>>)))
                ELSE IF Len(fields) # 3 THEN RRaise("ValueError")
                ELSE IF width < 4 THEN RRaise("ParserError")
                ELSE IF csv.raised # "" THEN RRaise(csv.raised)
                ELSE done(csv.table)
        /\ UNCHANGED <<sys_byteorder, fs, w, o, given>>

\* lines 146-160: the second open, at the offset the header ended at, and
\* the records of the vertices and then of the faces.  The offset is one
\* of the file as it is now; the model holds no bytes for text, and an
\* offset inside the text (the file grew a longer header meanwhile) ends
\* the call as "TextAsPayload".
read_ply_binary ==
    LET file == FileAt(r.filename)
        h == r.hdr
        pos == h.end_header - TextBytes(file.lines, Len(file.lines))
        pa == fromfile(file.data, pos, DictList(h.dtypes, S.vertex), h.points_size[1])
        points == FrameOfRecords(ToNative(pa, h.ext))
        ma == fromfile(file.data, pa.next, DictList(h.dtypes, S.face), h.mesh_size[1])
        mesh == FrameOfRecords(ToNative(ma, h.ext))
    IN  /\ r.pc = "binary"
        /\ r' = IF ~file.exists THEN RRaise("FileNotFoundError")
                ELSE IF pos < 0 THEN RRaise("TextAsPayload")
                ELSE IF h.points_size = <<>> THEN RRaise("TypeError")
                ELSE IF pa.itemsize = 0 THEN RRaise("ValueError")
                ELSE IF h.mesh_size = <<>> THEN RReturn([k \in {"points"} |-> points])
                ELSE IF ma.itemsize = 0 THEN RRaise("ValueError")
                ELSE IF S.n_points \notin Range(mesh.columns) THEN RRaise("KeyError")
                ELSE RReturn([k \in {"points", "mesh"} |->
                                 IF k = "mesh" THEN DropColumn(mesh, S.n_points)
                                 ELSE points])
        /\ UNCHANGED <<sys_byteorder, fs, w, o, given>>

----------------------------------------------------------------------------
(* write_obj.  Arrays live in a heap of numbered objects, so that a copy   *)
(* and an alias differ: heap[id] is the array of that number.              *)

Million == 1000000

\* the digits of n, zeros before them up to width k
RECURSIVE ZeroPad(_, _)
ZeroPad(text, k) == IF Len(text) >= k THEN text ELSE ZeroPad(<<"0">> \o text, k)

\* a quotient rounded to the nearest whole, a tie to the even one
RoundDiv(a, b) ==
    LET q == a \div b
        rem == a % b
    IN  IF (2 * rem) > b \/ ((2 * rem) = b /\ (q % 2) = 1) THEN q + 1 ELSE q

\* "%f" % v: six decimals, of a float that is not negative
PercentF(v) ==
    LET scaled == IF v.x >= 0 THEN (v.m * Pow2(v.x)) * Million
                  ELSE RoundDiv(v.m * Million, Pow2(-v.x))
    IN  Str(scaled \div Million) \o <<".">> \o ZeroPad(Str(scaled % Million), 6)

\* np.copy(a): a new object of the values and the dtype of heap[id]
np_copy(heap, id) == Append(heap, heap[id])

\* a += 1 on the object id: in place, in the array's own dtype
AddOne(heap, id) ==
    LET a == heap[id]
        size == ItemSize(a.dtype)
        signed == a.dtype[1] = "i"
    IN  [heap EXCEPT ![id] =
            Array(a.dtype, [i \in DOMAIN a.rows |->
                               [j \in DOMAIN a.rows[i] |->
                                   Wrap(a.rows[i][j] + 1, size, signed)]])]

\* lines 287-290: the face line of a row of each array
FaceLine(v, t) ==
    <<"f">> \o Flatten([j \in 1..3 |->
        <<" ">> \o Str(v[j]) \o <<"/">> \o Str(t[j]) \o <<"/">> \o Str(t[j])])

Min(a, b) == IF a < b THEN a ELSE b

\* zip(a, b): as many pairs as the shorter has rows
FaceLines(tri_v, tri_t) ==
    [i \in 1..Min(Len(tri_v.rows), Len(tri_t.rows)) |->
        FaceLine(tri_v.rows[i], tri_t.rows[i])]

\* line 273: a value of vt_arr above 1 (none is below 0 here)
OutOfRange(vt_arr) ==
    \E i \in DOMAIN vt_arr.rows : \E j \in 1..2 :
        vt_arr.rows[i][j].x >= 0 /\ vt_arr.rows[i][j].m * Pow2(vt_arr.rows[i][j].x) > 1

OIdle == [pc |-> "idle", heap |-> <<>>, tri_v |-> 0, tri_t |-> 0, before |-> <<>>,
          path |-> <<>>, printed |-> FALSE, ret |-> ""]

\* lines 259-290.  heap0 is the caller's heap, tri_v and tri_t the numbers
\* of the two index arrays in it (one number when the caller passes one
\* array twice).  np.amax of an empty vt_arr raises before the file is
\* opened.
write_obj(obj_path, v_arr, vt_arr, heap0, tri_v, tri_t) ==
    LET heap1 == np_copy(heap0, tri_v)
        tri_v_arr == Len(heap1)
        heap2 == np_copy(heap1, tri_t)
        tri_t_arr == Len(heap2)
        heap3 == AddOne(AddOne(heap2, tri_v_arr), tri_t_arr)
        lines == <<S.mtllib>>
                 \o [i \in DOMAIN v_arr.rows |->
                        <<"v">> \o Flatten([j \in 1..3 |->
                            <<" ">> \o PercentF(v_arr.rows[i][j])])]
                 \o [i \in DOMAIN vt_arr.rows |->
                        <<"v", "t">> \o Flatten([j \in 1..2 |->
                            <<" ">> \o PercentF(vt_arr.rows[i][j])])]
                 \o FaceLines(heap3[tri_v_arr], heap3[tri_t_arr])
        base == [pc |-> "done", tri_v |-> tri_v, tri_t |-> tri_t, before |-> heap0,
                 path |-> obj_path, printed |-> FALSE, heap |-> heap2, ret |-> ""]
    IN  /\ o.pc = "idle"
        /\ IF vt_arr.rows = <<>>
           THEN /\ o' = [base EXCEPT !.ret = "ValueError"]
                /\ fs' = fs
           ELSE /\ o' = [base EXCEPT !.heap = heap3, !.ret = "None",
                                     !.printed = OutOfRange(vt_arr)]
                /\ fs' = FsWith(obj_path, File(lines, <<>>))
        /\ UNCHANGED <<sys_byteorder, w, r, given>>

NoGiven == [damage |-> "unused"]

----------------------------------------------------------------------------
(* The round trip: a call of write_ply and then a call of read_ply on the  *)
(* file it names, on either platform, the file there before or not.        *)

\* the values the rows of a points array are made of: whole numbers, one of
\* them (2^24 + 1) with more bits than a 4-byte float holds
PointRows ==
    { <<Float(1), Float(2), Float(3)>>, <<Float(0), Float(16777217), Float(258)>> }

FloatDtypes == {S.float32, S.float64}

IntDtypes == {S.int32, S.int64}

\* np.asarray(rows, dtype)
PointsArray(dtype, rows) ==
    Array(dtype, [i \in DOMAIN rows |->
                     [j \in DOMAIN rows[i] |-> CastValue(rows[i][j], dtype)]])

PointArgs ==
    {None} \cup {PointsArray(d, rows) : d \in FloatDtypes, rows \in SeqsUpTo(PointRows, MaxN)}

\* the faces of n points: triples of indices below n
FaceRows(n) ==
    {<<a, b, c>> : a \in 0..(n - 1), b \in 0..(n - 1), c \in 0..(n - 1)}

MeshArgs(points) ==
    {None} \cup {Array(d, rows) : d \in IntDtypes,
                     rows \in SeqsUpTo({f \in FaceRows(Len(points.rows)) :
                                           f[1] <= f[2] /\ f[2] <= f[3]}, MaxM)}

ColorArgs(points) ==
    {None} \cup (IF points = None THEN {}
                 ELSE {Array(S.uint8, [i \in DOMAIN points.rows |-> <<255, 0, 7>>])})

MeshName == <<"m">> \o S.dot_ply

\* a file written before: one vertex and one face, as text
OldFile ==
    LET pts == PointsTable(PointsArray(S.float32, <<<<Float(7), Float(8), Float(9)>>>>), None)
        msh == MeshTable(Array(S.int32, <<<<0, 0, 0>>>>))
    IN  File(Header(pts, msh, TRUE).lines \o to_csv(pts) \o to_csv(MeshWithCount(msh)), <<>>)

Init ==
    /\ sys_byteorder \in {"<", ">"}
    /\ fs \in {<<>>, [p \in {MeshName} |-> OldFile]}
    /\ w = WIdle
    /\ r = RIdle
    /\ o = OIdle
    /\ given = NoGiven

WriteHeader ==
    \E points \in PointArgs :
        \E mesh \in MeshArgs(points), colors \in ColorArgs(points), as_text \in BOOLEAN :
            write_ply_header(MeshName, points, mesh, colors, as_text)

WritePointsText == \E fault \in BOOLEAN : write_ply_points_text(fault)

WriteMeshText == \E fault \in BOOLEAN : write_ply_mesh_text(fault)

WriteBinary == \E fault \in BOOLEAN : write_ply_binary(fault)

ReadWritten == w.pc = "done" /\ read_ply_header(w.filename)

ReadMeshText == \E strict \in BOOLEAN : read_ply_mesh_text(strict)

Next ==
    \/ WriteHeader
    \/ WritePointsText
    \/ WriteMeshText
    \/ WriteBinary
    \/ ReadWritten
    \/ read_ply_points_text
    \/ ReadMeshText
    \/ read_ply_binary

Spec == Init /\ [][Next]_vars

\* the call of write_ply returned True, and the call of read_ply on the
\* file it wrote is over
RoundTripDone(as_text) ==
    /\ w.pc = "done"
    /\ w.ret = "True"
    /\ w.as_text = as_text
    /\ r.pc = "done"
    /\ r.filename = w.filename

\* read_ply returned the points and the mesh that were written
ReadBack ==
    /\ r.ret = "data"
    /\ DOMAIN r.data = {"points", "mesh"}
    /\ r.data.points.rows = w.args.points.rows
    /\ r.data.mesh.columns = <<S.v1, S.v2, S.v3>>
    /\ r.data.mesh.rows = w.args.mesh.rows

\* the bytes of a record of the table, as tofile writes it
RecordWidth(df) ==
    LET RECURSIVE Sum(_)
        Sum(j) == IF j = 0 THEN 0 ELSE Sum(j - 1) + ItemSize(df.dtypes[j])
    IN  Sum(Len(df.dtypes))

\* the bytes of a record of the dtype read_ply derives from the header
HeaderWidth(fields) == fromfile(<<>>, 0, fields, 0).itemsize

\* C1: binary round trip.  When write_ply(path, P, F) with as_text=False has
\* returned and read_ply(path) is over, read_ply returned a points table
\* equal to P and a mesh table (v1, v2, v3) equal to F, and the record widths
\* read_ply derived from the header are those of the records written.
\* Stated for a mesh of at least one face and no colors.
C1_BinaryRoundTrip ==
    (/\ RoundTripDone(FALSE)
     /\ w.args.points # None
     /\ w.args.mesh # None
     /\ w.args.colors = None
     /\ w.args.mesh.rows # <<>>)
    => /\ ReadBack
       /\ HeaderWidth(DictList(r.hdr.dtypes, S.vertex)) = RecordWidth(w.points)
       /\ HeaderWidth(DictList(r.hdr.dtypes, S.face)) = RecordWidth(w.mesh)

\* the lines of the header of the file written
WrittenHeader == Header(w.points, MeshTable(w.args.mesh), w.as_text).lines

\* C2: ASCII round trip.  When write_ply(path, P, F, as_text=True) has
\* returned and read_ply(path) is over, read_ply skipped as many lines as
\* the header has and returned the N points, equal to P, and the M faces,
\* equal to F.  Stated for a mesh of at least one face and no colors; the
\* text pandas writes for a float reads back as the same float, so equal up
\* to the precision of the text is equal.
C2_AsciiRoundTrip ==
    (/\ RoundTripDone(TRUE)
     /\ w.args.points # None
     /\ w.args.mesh # None
     /\ w.args.colors = None
     /\ w.args.mesh.rows # <<>>)
    => /\ r.hdr.count = Len(WrittenHeader)
       /\ ReadBack

\* the header of the file of the call declares a face element
DeclaresFace ==
    \E i \in DOMAIN FileAt(w.filename).lines :
        LET toks == Split(FileAt(w.filename).lines[i])
        IN  Len(toks) >= 2 /\ toks[1] = S.element /\ toks[2] = S.face

\* C8: the face element only when a mesh is supplied.  Once write_ply has
\* written the header, the header declares a face element exactly when the
\* caller passed a mesh; and read_ply of a file written with no mesh
\* returns the key points and no key mesh.
C8_FaceOnlyWithMesh ==
    /\ (w.pc # "idle" /\ w.ret \in {"", "True"})
           => (DeclaresFace <=> w.args.mesh # None)
    /\ (w.pc = "done" /\ w.ret = "True" /\ w.args.mesh = None
            /\ r.pc = "done" /\ r.filename = w.filename)
           => (r.ret = "data" /\ DOMAIN r.data = {"points"})

\* C10: no durable change on error.  When write_ply has raised, the file
\* that was at the destination before the call is there unchanged, unless
\* it was a binary write that failed after the header was written.
C10_NoChangeOnError ==
    (/\ w.pc = "done"
     /\ w.ret \notin {"", "True"}
     /\ w.before.exists
     /\ ~(~w.as_text /\ w.ret = "OSError"))
    => FileAt(w.filename) = w.before

----------------------------------------------------------------------------
(* Reading files made elsewhere: PLY files of either byte order and as     *)
(* text, whole or damaged (no magic word, an unknown property type, a      *)
(* header cut short), read on either platform.                             *)

ReadName == <<"r">> \o S.dot_ply

\* the pandas name of the values a PLY type name declares
DeclaredDtype(ptype) == IF ptype = S.double THEN S.float64 ELSE S.float32

GivenHeader(g) ==
    <<S.ply,
      Join(<<S.format, g.fmt, S.version>>, <<" ">>),
      Join(<<S.element, S.vertex, Str(Len(g.points))>>, <<" ">>),
      Join(<<S.property, g.ptype, S.x>>, <<" ">>),
      Join(<<S.property, g.ptype, S.y>>, <<" ">>),
      Join(<<S.property, g.ptype, S.z>>, <<" ">>)>>
    \o (IF g.hasFace
        THEN <<Join(<<S.element, S.face, Str(Len(g.faces))>>, <<" ">>),
               Join(<<S.property, S.list, S.uchar, S.int, S.vertex_indices>>, <<" ">>)>>
        ELSE <<>>)
    \o <<S.end_header>>

GivenTextLines(g) ==
    [i \in DOMAIN g.points |->
        Join([j \in 1..3 |-> FloatText(g.points[i][j])], <<" ">>)]
    \o [i \in DOMAIN g.faces |->
        Join(<<Str(3)>> \o [j \in 1..3 |-> Str(g.faces[i][j])], <<" ">>)]

GivenBytes(g) ==
    LET order == valid_formats[g.fmt][1]
    IN  Flatten([i \in DOMAIN g.points |->
            Flatten([j \in 1..3 |->
                EncodeValue(g.points[i][j], DeclaredDtype(g.ptype), order)])])
        \o Flatten([i \in DOMAIN g.faces |->
            EncodeValue(3, S.uint8, order)
            \o Flatten([j \in 1..3 |-> EncodeValue(g.faces[i][j], S.int32, order)])])

NotPly == <<"o", "b", "j">>

GivenFile(g) ==
    LET header == GivenHeader(g)
        lines == IF g.damage = "magic" THEN <<NotPly>> \o Tail(header)
                 ELSE IF g.damage = "bogus"
                 THEN [header EXCEPT ![4] = Join(<<S.property, S.bogus, S.x>>, <<" ">>)]
                 ELSE IF g.damage = "truncate" THEN SubSeq(header, 1, g.keep)
                 ELSE header
    IN  IF g.damage = "truncate" THEN File(lines, <<>>)
        ELSE IF g.fmt = S.ascii THEN File(lines \o GivenTextLines(g), <<>>)
        ELSE File(lines, GivenBytes(g))

Givens ==
    { [fmt |-> fmt, ptype |-> ptype, points |-> PointsArray(DeclaredDtype(ptype), rows).rows,
       hasFace |-> hasFace, faces |-> faces, damage |-> damage, keep |-> keep] :
        fmt \in DOMAIN valid_formats, ptype \in {S.float, S.double},
        rows \in SeqsUpTo(PointRows, MaxN), hasFace \in BOOLEAN,
        faces \in SeqsUpTo({<<0, 0, 0>>, <<258, 1, 0>>}, MaxM),
        damage \in {"none", "magic", "bogus", "truncate"}, keep \in 0..8 }

InitRead ==
    /\ sys_byteorder \in {"<", ">"}
    /\ given \in {g \in Givens :
                    /\ g.damage = "truncate" <=> g.keep > 0
                    /\ g.keep < Len(GivenHeader(g))
                    /\ ~g.hasFace => g.faces = <<>>}
    /\ fs = [p \in {ReadName} |-> GivenFile(given)]
    /\ w = WIdle
    /\ r = RIdle
    /\ o = OIdle

ReadGiven == read_ply_header(ReadName)

NextRead ==
    \/ ReadGiven
    \/ read_ply_points_text
    \/ ReadMeshText
    \/ read_ply_binary

SpecRead == InitRead /\ [][NextRead]_vars

\* the exception read_ply raises for a file that is no PLY file (line 51)
InvalidFormat == "ValueError"

\* C3: header rejection.  read_ply of a file whose first line holds no `ply`
\* and read_ply of a file with a property of an unknown type both end with
\* the InvalidFormat error, the same one, and return no data.
C3_HeaderRejection ==
    (r.pc = "done" /\ given.damage \in {"magic", "bogus"})
    => (r.ret = InvalidFormat /\ r.data = <<>>)

\* C4: truncated header.  read_ply of a file that ends while the header is
\* scanned, no end_header seen, returns no result.
C4_TruncatedHeader ==
    (given.damage = "truncate" /\ given.keep >= 2) => r.ret # "data"

\* the values of the file as given
ReadGivenValues ==
    /\ r.ret = "data"
    /\ r.data.points.rows = given.points
    /\ IF given.hasFace
       THEN DOMAIN r.data = {"points", "mesh"} /\ r.data.mesh.rows = given.faces
       ELSE DOMAIN r.data = {"points"}

\* C5: byte-order correctness.  On a little-endian platform read_ply of a
\* whole binary file returns the values encoded in it, whichever byte order
\* the file declares: a big-endian file reads as the little-endian file of
\* the same content does.
C5_ByteOrder ==
    (/\ r.pc = "done"
     /\ sys_byteorder = "<"
     /\ given.damage = "none"
     /\ given.fmt \in {S.binary_big_endian, S.binary_little_endian})
    => ReadGivenValues

\* a big-endian file of a vertex and a face was read on a little-endian
\* platform, through the byte swap
C5_Witness ==
    /\ r.pc = "done"
    /\ r.ret = "data"
    /\ sys_byteorder = "<"
    /\ given.damage = "none"
    /\ given.fmt = S.binary_big_endian
    /\ given.ptype = S.double
    /\ given.points # <<>>
    /\ given.points[1][2] = Float(16777217)
    /\ given.hasFace
    /\ given.faces # <<>>
    /\ given.faces[1][1] = 258
    /\ r.data.mesh.rows = given.faces

----------------------------------------------------------------------------
(* One write_ply call and read_ply calls of the same path, their opens     *)
(* interleaved.  No file is there before the write.                        *)

InitConc ==
    /\ sys_byteorder \in {"<", ">"}
    /\ fs = <<>>
    /\ w = WIdle
    /\ r = RIdle
    /\ o = OIdle
    /\ given = NoGiven

ConcWriteHeader ==
    \E points \in PointArgs \ {None} :
        \E mesh \in MeshArgs(points), as_text \in BOOLEAN :
            write_ply_header(MeshName, points, mesh, None, as_text)

ConcWritePointsText == write_ply_points_text(FALSE)

ConcWriteMeshText == write_ply_mesh_text(FALSE)

ConcWriteBinary == write_ply_binary(FALSE)

ConcRead == read_ply_header(MeshName)

\* the reader's next call
ReadAgain ==
    /\ r.pc = "done"
    /\ r' = RIdle
    /\ UNCHANGED <<sys_byteorder, fs, w, o, given>>

NextConc ==
    \/ ConcWriteHeader
    \/ ConcWritePointsText
    \/ ConcWriteMeshText
    \/ ConcWriteBinary
    \/ ConcRead
    \/ read_ply_points_text
    \/ ReadMeshText
    \/ read_ply_binary
    \/ ReadAgain

SpecConc == InitConc /\ [][NextConc]_vars

\* write_ply has closed the header and not yet appended
BetweenOpens == w.pc \in {"points_text", "binary"}

\* C9: write_ply is not atomic on its path.  Between its two opens the file
\* is the whole header and no payload record, and a read_ply of the path
\* that has returned by then returned the tables of that file: no row.
C9_HeaderOnlyBetweenOpens ==
    BetweenOpens =>
        /\ FileAt(w.filename) = File(WrittenHeader, <<>>)
        /\ WrittenHeader[Len(WrittenHeader)] = S.end_header
        /\ (r.pc = "done" /\ r.ret = "data") =>
               \A k \in DOMAIN r.data : r.data[k].rows = <<>>

\* a read_ply returned between the two opens of a write_ply of one vertex:
\* the header it read declares the vertex, the table it returned has none
C9_Witness ==
    /\ BetweenOpens
    /\ Len(w.points.rows) > 0
    /\ r.pc = "done"
    /\ r.ret = "data"
    /\ r.hdr.points_size = <<Len(w.points.rows)>>
    /\ r.data.points.rows = <<>>

----------------------------------------------------------------------------
(* write_obj calls: index arrays of one byte and of eight, up to the       *)
(* largest index one byte holds.                                           *)

ObjName == <<"m", ".", "o", "b", "j">>

IndexRows == { <<0, 1, 2>>, <<255, 0, 1>> }

IndexArrays ==
    {Array(d, rows) : d \in {S.uint8, S.int64}, rows \in SeqsUpTo(IndexRows, MaxFaces)}

Half == Normal(1, -1)

UvArrays ==
    {Array(S.float64, rows) :
        rows \in SeqsUpTo({<<Float(0), Half>>, <<Float(1), Float(2)>>}, MaxN)}

VertexArrays ==
    {PointsArray(S.float64, rows) : rows \in SeqsUpTo({<<Float(1), Half, Float(3)>>}, MaxN)}

InitObj ==
    /\ sys_byteorder \in {"<", ">"}
    /\ fs = <<>>
    /\ w = WIdle
    /\ r = RIdle
    /\ o = OIdle
    /\ given = NoGiven

\* the caller passes two arrays, or one array for both
WriteObj ==
    \E v_arr \in VertexArrays, vt_arr \in UvArrays, a \in IndexArrays, b \in IndexArrays :
        \/ write_obj(ObjName, v_arr, vt_arr, <<a, b>>, 1, 2)
        \/ write_obj(ObjName, v_arr, vt_arr, <<a>>, 1, 1)

NextObj == WriteObj

SpecObj == InitObj /\ [][NextObj]_vars

\* the face lines of the file written
WrittenFaceLines ==
    LET lines == FileAt(o.path).lines
    IN  SelectSeq(lines, LAMBDA l : l[1] = "f")

\* after write_obj the caller's arrays hold what they held before
CallerArraysKept ==
    \A id \in DOMAIN o.before : o.heap[id] = o.before[id]

\* C6: index shift without aliasing.  Every face line write_obj wrote
\* carries in each slot the input index plus 1, and the caller's two index
\* arrays hold after the call what they held before.
C6_IndexShift ==
    (o.pc = "done" /\ o.ret = "None")
    => /\ CallerArraysKept
       /\ \A i \in DOMAIN WrittenFaceLines :
              WrittenFaceLines[i] =
                  FaceLine([j \in 1..3 |-> o.before[o.tri_v].rows[i][j] + 1],
                           [j \in 1..3 |-> o.before[o.tri_t].rows[i][j] + 1])

----------------------------------------------------------------------------
(* write_ply calls under every short name of the letters of the suffix,    *)
(* and under two longer names.                                             *)

PathNames ==
    (SeqsUpTo({".", "p", "l", "y"}, MaxNameLen) \ {<<>>}) \cup {S.reply, S.mesh_ply}

InitPath ==
    /\ sys_byteorder \in {"<", ">"}
    /\ fs = <<>>
    /\ w = WIdle
    /\ r = RIdle
    /\ o = OIdle
    /\ given = NoGiven

PathWriteHeader ==
    \E filename \in PathNames, as_text \in BOOLEAN :
        write_ply_header(filename, PointsArray(S.float32, <<<<Float(1), Float(2), Float(3)>>>>),
                         None, None, as_text)

NextPath ==
    \/ PathWriteHeader
    \/ ConcWritePointsText
    \/ ConcWriteMeshText
    \/ ConcWriteBinary

SpecPath == InitPath /\ [][NextPath]_vars

\* C7: output path suffix.  The file write_ply writes has a name ending in
\* `.ply`: the path given when that ends in `.ply`, the path with `.ply`
\* appended when it does not.
C7_OutputSuffix ==
    w.pc # "idle"
    => /\ w.filename \in DOMAIN fs
       /\ EndsWith(w.filename, S.dot_ply)
       /\ w.filename = IF EndsWith(w.args.filename, S.dot_ply) THEN w.args.filename
                       ELSE w.args.filename \o S.dot_ply

============================================================================
